---- MODULE Spec2Model ----
(***************************************************************************)
(* A model of lexscan (lexscan/lexscan.py): the ScanExp pattern rule with  *)
(* its one-entry match cache, and the tokenize loop that drives a list of  *)
(* ScanExp objects over a subject string.                                  *)
(*                                                                         *)
(* Character offsets are Python offsets (0-based); a string is a TLA+      *)
(* sequence of one-character strings, so the character at offset p of s is *)
(* s[p+1].  ScanExp objects are referred to by their index in the list     *)
(* handed to tokenize; index 0 stands for Python's None.                   *)
(***************************************************************************)
EXTENDS Integers, Sequences, FiniteSets, TLC

\* ------------------------------------------------------------------------
\* Bounds of the model
\* ------------------------------------------------------------------------

\* longest subject string
MaxLen == 3

\* longest list of ScanExp objects handed to tokenize
MaxRules == 2

\* ------------------------------------------------------------------------
\* Values
\* ------------------------------------------------------------------------

\* Python's None (a missing match, a missing compiled regex)
None == [kind |-> "None"]

\* the default of tokenize's newline parameter
newline == "\n"

\* the default of tokenize's source parameter
source == None

\* regex.error, the exception regex.compile raises for a malformed pattern
RegexError == [kind |-> "regex.error"]

\* no exception
NoExc == "none"

\* the default of ScanExp's settings parameter
IGNORECASE == "IGNORECASE"

\* the characters subjects are made of
Chars == {"a", newline}

\* the subject strings
Subjects == UNION {[1..n -> Chars] : n \in 0..MaxLen}

\* the empty string ''
EmptyStr == <<>>

\* a pattern text that does not compile
Malformed == "("

\* the pattern texts rules are built from
Expressions == {"a+", "\\n+", "[a\\n]+", "a*"}

\* the constructor arguments of the rules: every pattern eagerly compiled,
\* significant or not, and one rule compiled lazily (precompile = False)
RuleArgs ==
  {[expression |-> e, significant |-> s, precompile |-> TRUE] : e \in Expressions, s \in BOOLEAN}
    \cup {[expression |-> "a+", significant |-> TRUE, precompile |-> FALSE]}

\* the lists of constructor arguments
RuleLists == UNION {[1..n -> RuleArgs] : n \in 1..MaxRules}

Min(S) == CHOOSE x \in S : \A y \in S : x <= y

\* string[a:b]
Slice(string, a, b) == SubSeq(string, a + 1, b)

\* ------------------------------------------------------------------------
\* The regular expression engine (module regex), for the patterns above:
\* a character class repeated one or more ("plus") or zero or more ("star")
\* times, matched greedily.
\* ------------------------------------------------------------------------

\* regex.compile(expression, settings)
regex_compile(expression, settings) ==
  CASE expression = "a+" -> [kind |-> "plus", set |-> {"a"}, flags |-> settings]
    [] expression = "\\n+" -> [kind |-> "plus", set |-> {newline}, flags |-> settings]
    [] expression = "[a\\n]+" -> [kind |-> "plus", set |-> {"a", newline}, flags |-> settings]
    [] expression = "a*" -> [kind |-> "star", set |-> {"a"}, flags |-> settings]
    [] expression = Malformed -> RegexError

RECURSIVE RunEnd(_, _, _)
\* the offset where the greedy run of class characters that starts at p ends
RunEnd(set, string, p) ==
  IF p < Len(string) /\ string[p + 1] \in set THEN RunEnd(set, string, p + 1) ELSE p

\* the match of the compiled pattern that starts exactly at offset p, or None
match_at(rx, string, p) ==
  LET e == RunEnd(rx.set, string, p)
  IN IF e > p \/ rx.kind = "star"
     THEN [kind |-> "Match", start |-> p, end |-> e, string |-> string]
     ELSE None

\* rx.search(string, pos): the leftmost match starting at or after pos
regex_search(rx, string, pos) ==
  LET starts == {p \in pos..Len(string) : match_at(rx, string, p) # None}
  IN IF starts = {} THEN None ELSE match_at(rx, string, Min(starts))

\* match.group()
group(match) == Slice(match.string, match.start, match.end)

RECURSIVE count(_, _)
\* str.count(char) for a one-character argument
count(string, char) ==
  IF string = <<>> THEN 0
  ELSE (IF Head(string) = char THEN 1 ELSE 0) + count(Tail(string), char)

\* ------------------------------------------------------------------------
\* class ScanExp
\* ------------------------------------------------------------------------

\* a variant of compile: a pattern that does not compile yields None
compile_lenient(self) ==
  IF regex_compile(self.expression, self.settings) = RegexError THEN None
  ELSE regex_compile(self.expression, self.settings)

\* ScanExp.compile: compiles and returns the regular expression
compile(self) == regex_compile(self.expression, self.settings)

\* ScanExp.__init__
ScanExp(expression, settings, significant, name, precompile) ==
  LET self == [expression |-> expression, settings |-> settings, significant |-> significant, name |-> name]
  IN [cls |-> "ScanExp",
      expression |-> expression,
      settings |-> settings,
      significant |-> significant,
      name |-> name,
      regex |-> IF precompile THEN compile(self) ELSE None,
      cachematch |-> None,
      cachepos |-> -1,
      cachestr |-> EmptyStr]

\* a variant of clearcache: only the bound string is reset
clearcache_keep(self) == [self EXCEPT !.cachestr = EmptyStr]

\* ScanExp.clearcache
clearcache(self) == [self EXCEPT !.cachematch = None, !.cachepos = -1, !.cachestr = EmptyStr]

\* ScanExp.setsearchstring
setsearchstring(self, string) == [clearcache(self) EXCEPT !.cachestr = string]

\* a variant of search: "no match" is cached as holding to the end of the string
search_negcache(self, start) ==
  IF self.regex = None /\ compile(self) = RegexError
  THEN [self |-> self, match |-> None, raised |-> TRUE, exc |-> "regex.error", invoked |-> 0]
  ELSE IF self.cachepos >= start
  THEN [self |-> self, match |-> self.cachematch, raised |-> FALSE, exc |-> NoExc, invoked |-> 0]
  ELSE IF self.regex = None
  THEN [self |-> self, match |-> None, raised |-> TRUE, exc |-> "AttributeError", invoked |-> 0]
  ELSE LET match == regex_search(self.regex, self.cachestr, start)
       IN [self |-> [self EXCEPT !.cachepos = IF match # None THEN match.start ELSE Len(self.cachestr),
                                 !.cachematch = match],
           match |-> match,
           raised |-> FALSE,
           exc |-> NoExc,
           invoked |-> 1]

\* a variant of search: the end of the match is cached as its position
search_cacheend(self, start) ==
  IF self.regex = None /\ compile(self) = RegexError
  THEN [self |-> self, match |-> None, raised |-> TRUE, exc |-> "regex.error", invoked |-> 0]
  ELSE IF self.cachepos >= start
  THEN [self |-> self, match |-> self.cachematch, raised |-> FALSE, exc |-> NoExc, invoked |-> 0]
  ELSE IF self.regex = None
  THEN [self |-> self, match |-> None, raised |-> TRUE, exc |-> "AttributeError", invoked |-> 0]
  ELSE LET match == regex_search(self.regex, self.cachestr, start)
       IN [self |-> [self EXCEPT !.cachepos = IF match # None THEN match.end ELSE -1,
                                 !.cachematch = match],
           match |-> match,
           raised |-> FALSE,
           exc |-> NoExc,
           invoked |-> 1]

\* ScanExp.search: the object after the call, the value returned, whether the
\* call raised and what, and how often it invoked regex.search.
\* `if not self.regex: self.compile()` raises regex.error for a malformed
\* pattern; otherwise it drops the value compile returns, so self.regex
\* stays None and self.regex.search raises AttributeError.
search(self, start) ==
  IF self.regex = None /\ compile(self) = RegexError
  THEN [self |-> self, match |-> None, raised |-> TRUE, exc |-> "regex.error", invoked |-> 0]
  ELSE IF self.cachepos >= start
  THEN [self |-> self, match |-> self.cachematch, raised |-> FALSE, exc |-> NoExc, invoked |-> 0]
  ELSE IF self.regex = None
  THEN [self |-> self, match |-> None, raised |-> TRUE, exc |-> "AttributeError", invoked |-> 0]
  ELSE LET match == regex_search(self.regex, self.cachestr, start)
       IN [self |-> [self EXCEPT !.cachepos = IF match # None THEN match.start ELSE -1,
                                 !.cachematch = match],
           match |-> match,
           raised |-> FALSE,
           exc |-> NoExc,
           invoked |-> 1]

\* ------------------------------------------------------------------------
\* class ScanExpNoCache(lexscan.ScanExp) of test_cachespeed
\* ------------------------------------------------------------------------

\* ScanExpNoCache(...): the inherited __init__
ScanExpNoCache(expression, settings, significant, name, precompile) ==
  [ScanExp(expression, settings, significant, name, precompile) EXCEPT !.cls = "ScanExpNoCache"]

\* ScanExpNoCache.search: regex.search at every call, the cache fields untouched
search_nocache(self, start) ==
  IF self.regex = None /\ compile(self) = RegexError
  THEN [self |-> self, match |-> None, raised |-> TRUE, exc |-> "regex.error", invoked |-> 0]
  ELSE IF self.regex = None
  THEN [self |-> self, match |-> None, raised |-> TRUE, exc |-> "AttributeError", invoked |-> 0]
  ELSE [self |-> self,
        match |-> regex_search(self.regex, self.cachestr, start),
        raised |-> FALSE,
        exc |-> NoExc,
        invoked |-> 1]

\* exp.search(start): the method of the object's class
call_search(self, start) ==
  IF self.cls = "ScanExpNoCache" THEN search_nocache(self, start) ELSE search(self, start)

\* ------------------------------------------------------------------------
\* class ScanToken
\* ------------------------------------------------------------------------

\* ScanToken.__init__
ScanToken(text, expression, match, strpos, linepos, src) ==
  [text |-> text, expression |-> expression, match |-> match, strpos |-> strpos, linepos |-> linepos, source |-> src]

\* ------------------------------------------------------------------------
\* tokenize
\* ------------------------------------------------------------------------

\* a variant of IsCandidate: the start of the match is not compared with strpos
IsCandidate_nostart(match, strpos) == match # None

\* `if match and (match.start() == strpos)`
IsCandidate(match, strpos) == match # None /\ match.start = strpos

\* a variant of IsBetter: `>=` in place of `>`
IsBetter_ge(matchlen, bestlen) == matchlen >= bestlen

\* `if matchlen > bestlen`
IsBetter(matchlen, bestlen) == matchlen > bestlen

\* a variant of IsEmitted: the significance flag is not looked at
IsEmitted_always(exp) == TRUE

\* `if bestexp.significant`
IsEmitted(exp) == exp.significant

RECURSIVE BestMatch(_, _, _)
\* `for exp in expressions:` from the i-th expression on; best holds the
\* objects and the running bestexp, bestmatch, bestlen
BestMatch(best, strpos, i) ==
  IF i > Len(best.expressions) \/ best.raised THEN best
  ELSE LET r == call_search(best.expressions[i], strpos)
           exps == [best.expressions EXCEPT ![i] = r.self]
           inv == IF r.invoked > 0 THEN best.invoked \cup {i} ELSE best.invoked
       IN IF r.raised
          THEN [best EXCEPT !.expressions = exps, !.raised = TRUE, !.exc = r.exc]
          ELSE IF IsCandidate(r.match, strpos) /\ IsBetter(r.match.end - strpos, best.bestlen)
          THEN BestMatch([expressions |-> exps,
                          bestexp |-> i,
                          bestmatch |-> r.match,
                          bestlen |-> r.match.end - strpos,
                          raised |-> FALSE,
                          exc |-> NoExc,
                          invoked |-> inv], strpos, i + 1)
          ELSE BestMatch([best EXCEPT !.expressions = exps, !.invoked = inv], strpos, i + 1)

\* a variant of Matched: the line counter advances only for emitted tokens
Matched_emitted(loc, b) ==
  LET matchstr == group(b.bestmatch)
      emit == IsEmitted(b.expressions[b.bestexp])
  IN [loc EXCEPT !.expressions = b.expressions,
                 !.tokens = IF emit
                            THEN Append(@, ScanToken(matchstr, b.bestexp, b.bestmatch, loc.strpos, loc.strline, source))
                            ELSE @,
                 !.strline = IF emit THEN @ + count(matchstr, newline) ELSE @,
                 !.strpos = @ + b.bestlen,
                 !.bestexp = b.bestexp,
                 !.bestmatch = b.bestmatch,
                 !.bestlen = b.bestlen,
                 !.invoked = b.invoked]

\* the `if bestexp:` branch: the token of the best match
Matched(loc, b) ==
  LET matchstr == group(b.bestmatch)
  IN [loc EXCEPT !.expressions = b.expressions,
                 !.tokens = IF IsEmitted(b.expressions[b.bestexp])
                            THEN Append(@, ScanToken(matchstr, b.bestexp, b.bestmatch, loc.strpos, loc.strline, source))
                            ELSE @,
                 !.strline = @ + count(matchstr, newline),
                 !.strpos = @ + b.bestlen,
                 !.bestexp = b.bestexp,
                 !.bestmatch = b.bestmatch,
                 !.bestlen = b.bestlen,
                 !.invoked = b.invoked]

\* a variant of Unmatched: the token is built after the counters are advanced
Unmatched_late(loc, b) ==
  LET char == loc.strinput[loc.strpos + 1]
      line == loc.strline + (IF char = newline THEN 1 ELSE 0)
  IN [loc EXCEPT !.expressions = b.expressions,
                 !.tokens = Append(@, ScanToken(<<char>>, 0, None, loc.strpos + 1, line, source)),
                 !.strline = line,
                 !.strpos = @ + 1,
                 !.bestexp = 0,
                 !.bestmatch = None,
                 !.bestlen = 0,
                 !.invoked = b.invoked]

\* the `else:` branch: the single-character token of no expression
Unmatched(loc, b) ==
  LET char == loc.strinput[loc.strpos + 1]
  IN [loc EXCEPT !.expressions = b.expressions,
                 !.tokens = Append(@, ScanToken(<<char>>, 0, None, loc.strpos, loc.strline, source)),
                 !.strline = @ + (IF char = newline THEN 1 ELSE 0),
                 !.strpos = @ + 1,
                 !.bestexp = 0,
                 !.bestmatch = None,
                 !.bestlen = 0,
                 !.invoked = b.invoked]

\* one pass through the body of `while strpos < strlen:`
LoopBody(loc) ==
  LET b == BestMatch([expressions |-> loc.expressions,
                      bestexp |-> 0,
                      bestmatch |-> None,
                      bestlen |-> 0,
                      raised |-> FALSE,
                      exc |-> NoExc,
                      invoked |-> {}], loc.strpos, 1)
  IN IF b.raised
     THEN [loc EXCEPT !.expressions = b.expressions, !.raised = TRUE, !.exc = b.exc, !.bestexp = 0, !.bestmatch = None, !.bestlen = 0]
     ELSE IF b.bestexp # 0 THEN Matched(loc, b) ELSE Unmatched(loc, b)

\* the statements of tokenize before the loop
Prologue(strinput, expressions) ==
  [expressions |-> [i \in 1..Len(expressions) |-> setsearchstring(expressions[i], strinput)],
   strinput |-> strinput,
   tokens |-> <<>>,
   strpos |-> 0,
   strline |-> 1,
   raised |-> FALSE,
   exc |-> NoExc,
   bestexp |-> 0,
   bestmatch |-> None,
   bestlen |-> 0,
   invoked |-> {}]

RECURSIVE Loop(_)
\* `while strpos < strlen:` run to its end, or to the exception
Loop(loc) ==
  IF loc.raised \/ ~(loc.strpos < Len(loc.strinput)) THEN loc ELSE Loop(LoopBody(loc))

\* one whole call tokenize(strinput, expressions)
tokenize(strinput, expressions) == Loop(Prologue(strinput, expressions))

\* the objects ScanExp(...) builds from a list of constructor arguments
Construct(args) ==
  [i \in 1..Len(args) |-> ScanExp(args[i].expression, IGNORECASE, args[i].significant, "", args[i].precompile)]

\* the objects ScanExpNoCache(...) builds from the same constructor arguments
ConstructNoCache(args) ==
  [i \in 1..Len(args) |-> ScanExpNoCache(args[i].expression, IGNORECASE, args[i].significant, "", args[i].precompile)]

\* ------------------------------------------------------------------------
\* State
\* ------------------------------------------------------------------------

VARIABLES
  ctor,      \* the constructor arguments the ScanExp objects were built from
  rules,     \* the ScanExp objects, in the order they are handed to tokenize
  pc,        \* where the caller of tokenize is: idle, loop, done or error
  strinput,  \* tokenize: the subject string
  tokens,    \* tokenize: the list of tokens built so far; the result when done
  strpos,    \* tokenize: the scan position
  strline,   \* tokenize: the line counter
  last,      \* history: what the latest step of tokenize did
  spans,     \* history: the spans the loop has consumed in this call
  reused,    \* history: an earlier call bound the objects to another subject
  call,      \* history: the latest direct call of a ScanExp method
  sess,      \* history: per object, the searches since its setsearchstring
  th         \* per thread, the locals of its tokenize call on the shared objects

vars == <<ctor, rules, pc, strinput, tokens, strpos, strline, last, spans, reused, call, sess, th>>

tokvars == <<pc, strinput, tokens, strpos, strline, last, spans, reused>>

expvars == <<call, sess>>

NoStep == [kind |-> "none", pos |-> 0, bestexp |-> 0, bestlen |-> 0, exc |-> NoExc, invoked |-> {}]

NoCall == [op |-> "none", exp |-> 0, string |-> EmptyStr, start |-> 0, ret |-> None, raised |-> FALSE, exc |-> NoExc, invoked |-> 0, cached |-> FALSE]

NoSess == [prepared |-> FALSE, mono |-> TRUE, maxstart |-> -1]

\* the threads that call tokenize on the same list of objects
Threads == {1, 2}

\* a thread that has not called tokenize
NoThread ==
  [pc |-> "idle", strinput |-> EmptyStr, tokens |-> <<>>, strpos |-> 0, strline |-> 1,
   i |-> 0, bestexp |-> 0, bestmatch |-> None, bestlen |-> 0,
   overlapped |-> FALSE, sawstale |-> FALSE]

\* the objects right after construction, nothing called yet
Init ==
  /\ ctor \in RuleLists
  /\ rules = Construct(ctor)
  /\ pc = "idle"
  /\ strinput = EmptyStr
  /\ tokens = <<>>
  /\ strpos = 0
  /\ strline = 1
  /\ last = NoStep
  /\ spans = <<>>
  /\ reused = FALSE
  /\ call = NoCall
  /\ sess = [i \in 1..Len(ctor) |-> NoSess]
  /\ th = [t \in Threads |-> NoThread]

\* ------------------------------------------------------------------------
\* Sequential calls of tokenize on one list of ScanExp objects
\* ------------------------------------------------------------------------

\* tokenize is called: every expression is bound to the subject, the locals
\* are initialised
TokenizeBegin(s) ==
  /\ pc \in {"idle", "done", "error"}
  /\ LET loc == Prologue(s, rules) IN
       /\ rules' = loc.expressions
       /\ strinput' = loc.strinput
       /\ tokens' = loc.tokens
       /\ strpos' = loc.strpos
       /\ strline' = loc.strline
  /\ pc' = "loop"
  /\ last' = [NoStep EXCEPT !.kind = "begin"]
  /\ spans' = <<>>
  /\ reused' = (reused \/ (pc # "idle" /\ strinput # s))
  /\ UNCHANGED <<ctor, call, sess, th>>

\* one pass through the loop body; an exception raised by search ends the call
LoopStep ==
  /\ pc = "loop"
  /\ strpos < Len(strinput)
  /\ LET loc == LoopBody([expressions |-> rules,
                          strinput |-> strinput,
                          tokens |-> tokens,
                          strpos |-> strpos,
                          strline |-> strline,
                          raised |-> FALSE,
                          exc |-> NoExc,
                          bestexp |-> 0,
                          bestmatch |-> None,
                          bestlen |-> 0,
                          invoked |-> {}]) IN
       /\ rules' = loc.expressions
       /\ IF loc.raised
          THEN /\ pc' = "error"
               /\ tokens' = <<>>
               /\ strpos' = 0
               /\ strline' = 1
               /\ last' = [NoStep EXCEPT !.kind = "raised", !.pos = strpos, !.exc = loc.exc]
               /\ spans' = <<>>
          ELSE /\ pc' = "loop"
               /\ tokens' = loc.tokens
               /\ strpos' = loc.strpos
               /\ strline' = loc.strline
               /\ last' = [kind |-> IF loc.bestexp # 0 THEN "match" ELSE "fallback",
                           pos |-> strpos,
                           bestexp |-> loc.bestexp,
                           bestlen |-> loc.bestlen,
                           exc |-> NoExc,
                           invoked |-> loc.invoked]
               /\ spans' = Append(spans, [start |-> strpos,
                                          end |-> loc.strpos,
                                          exp |-> loc.bestexp,
                                          text |-> IF loc.bestexp # 0 THEN group(loc.bestmatch) ELSE <<strinput[strpos + 1]>>,
                                          emitted |-> Len(loc.tokens) > Len(tokens)])
  /\ UNCHANGED <<ctor, strinput, reused, call, sess, th>>

\* the loop condition fails: `return tokens`
TokenizeReturn ==
  /\ pc = "loop"
  /\ ~(strpos < Len(strinput))
  /\ pc' = "done"
  /\ last' = [NoStep EXCEPT !.kind = "return", !.pos = strpos]
  /\ UNCHANGED <<ctor, rules, strinput, tokens, strpos, strline, spans, reused, call, sess, th>>

Next ==
  \/ \E s \in Subjects : TokenizeBegin(s)
  \/ LoopStep
  \/ TokenizeReturn

Spec == Init /\ [][Next]_vars

\* ------------------------------------------------------------------------
\* Two threads calling tokenize on one shared list of ScanExp objects
\* ------------------------------------------------------------------------
\* The threads interleave between the method calls tokenize makes on the
\* shared objects (setsearchstring line 68, search line 78); the statements
\* on a thread's own locals are taken together with the call before them.

\* the subjects the threads tokenize
ConcSubjects == {s \in Subjects : Len(s) < MaxLen}

\* eagerly compiled objects shared by the threads
InitConc ==
  /\ Init
  /\ Len(ctor) = 1
  /\ \A i \in 1..Len(ctor) : ctor[i].precompile

\* the thread is inside tokenize
Running(t) == th[t].pc \in {"bind", "search"}

\* the top of `while strpos < strlen:` with the locals of lines 75-77
LoopTop(l) ==
  [l EXCEPT !.pc = IF l.strpos < Len(l.strinput) THEN "search" ELSE "done",
            !.i = 1, !.bestexp = 0, !.bestmatch = None, !.bestlen = 0]

\* thread t calls tokenize(s, rules): the locals of lines 69-72
ThreadBegin(t, s) ==
  /\ th[t].pc = "idle"
  /\ LET o == \E u \in Threads \ {t} : Running(u) IN
       th' = [u \in Threads |->
                IF u = t
                THEN IF Len(rules) = 0
                     THEN LoopTop([NoThread EXCEPT !.strinput = s, !.overlapped = o])
                     ELSE [NoThread EXCEPT !.pc = "bind", !.strinput = s, !.i = 1, !.overlapped = o]
                ELSE [th[u] EXCEPT !.overlapped = @ \/ Running(u)]]
  /\ UNCHANGED <<ctor, rules, tokvars, expvars>>

\* thread t runs one `exp.setsearchstring(strinput)` of lines 67-68
ThreadBind(t) ==
  /\ th[t].pc = "bind"
  /\ LET l == th[t] IN
       /\ rules' = [rules EXCEPT ![l.i] = setsearchstring(rules[l.i], l.strinput)]
       /\ th' = [th EXCEPT ![t] = IF l.i < Len(rules) THEN [l EXCEPT !.i = @ + 1] ELSE LoopTop(l)]
  /\ UNCHANGED <<ctor, tokvars, expvars>>

\* the locals of thread t after the loop over the expressions: lines 87-96
ThreadEmit(l, exps) ==
  LET loc == [expressions |-> exps, strinput |-> l.strinput, tokens |-> l.tokens,
              strpos |-> l.strpos, strline |-> l.strline, raised |-> FALSE, exc |-> NoExc,
              bestexp |-> 0, bestmatch |-> None, bestlen |-> 0, invoked |-> {}]
      b == [expressions |-> exps, bestexp |-> l.bestexp, bestmatch |-> l.bestmatch,
            bestlen |-> l.bestlen, raised |-> FALSE, exc |-> NoExc, invoked |-> {}]
      n == IF l.bestexp # 0 THEN Matched(loc, b) ELSE Unmatched(loc, b)
  IN LoopTop([l EXCEPT !.tokens = n.tokens, !.strpos = n.strpos, !.strline = n.strline])

\* thread t runs one `match = exp.search(strpos)` of line 78 and lines 79-85
ThreadSearch(t) ==
  /\ th[t].pc = "search"
  /\ LET l == th[t]
         r == call_search(rules[l.i], l.strpos)
         exps == [rules EXCEPT ![l.i] = r.self]
         better == IsCandidate(r.match, l.strpos) /\ IsBetter(r.match.end - l.strpos, l.bestlen)
         m == [l EXCEPT !.bestexp = IF better THEN l.i ELSE @,
                        !.bestmatch = IF better THEN r.match ELSE @,
                        !.bestlen = IF better THEN r.match.end - l.strpos ELSE @,
                        !.sawstale = @ \/ (r.match # None /\ r.match.string # l.strinput)]
     IN /\ ~r.raised
        /\ rules' = exps
        /\ th' = [th EXCEPT ![t] = IF l.i < Len(rules) THEN [m EXCEPT !.i = @ + 1] ELSE ThreadEmit(m, exps)]
  /\ UNCHANGED <<ctor, tokvars, expvars>>

NextConc ==
  \/ \E t \in Threads, s \in ConcSubjects : ThreadBegin(t, s)
  \/ \E t \in Threads : ThreadBind(t)
  \/ \E t \in Threads : ThreadSearch(t)

SpecConc == InitConc /\ [][NextConc]_vars

\* ------------------------------------------------------------------------
\* Rules with malformed pattern text: construction, then tokenize
\* ------------------------------------------------------------------------

\* constructor arguments with the malformed pattern, compiled eagerly or lazily
BadRuleArgs ==
  {[expression |-> Malformed, significant |-> TRUE, precompile |-> p] : p \in BOOLEAN}
    \cup {[expression |-> "a+", significant |-> TRUE, precompile |-> p] : p \in BOOLEAN}

\* the lists of constructor arguments with a malformed pattern among them
BadRuleLists ==
  {l \in UNION {[1..n -> BadRuleArgs] : n \in 1..MaxRules} :
     \E i \in 1..Len(l) : l[i].expression = Malformed}

\* before the ScanExp objects are constructed
InitBad ==
  /\ ctor \in BadRuleLists
  /\ rules = <<>>
  /\ pc = "new"
  /\ strinput = EmptyStr
  /\ tokens = <<>>
  /\ strpos = 0
  /\ strline = 1
  /\ last = NoStep
  /\ spans = <<>>
  /\ reused = FALSE
  /\ call = NoCall
  /\ sess = [i \in 1..Len(ctor) |-> NoSess]
  /\ th = [t \in Threads |-> NoThread]

\* the list [ScanExp(...), ...] is built: `self.regex = self.compile()` of an
\* eagerly compiled malformed pattern raises and no list exists
ConstructCall ==
  /\ pc = "new"
  /\ LET objs == Construct(ctor) IN
       IF \E i \in 1..Len(objs) : objs[i].regex = RegexError
       THEN /\ pc' = "ctor_error"
            /\ rules' = <<>>
            /\ last' = [NoStep EXCEPT !.kind = "raised", !.exc = "regex.error"]
       ELSE /\ pc' = "idle"
            /\ rules' = objs
            /\ last' = NoStep
  /\ UNCHANGED <<ctor, strinput, tokens, strpos, strline, spans, reused, call, sess, th>>

NextBad ==
  \/ ConstructCall
  \/ Next

SpecBad == InitBad /\ [][NextBad]_vars

\* ------------------------------------------------------------------------
\* Direct sequential calls of the methods of one ScanExp object
\* ------------------------------------------------------------------------

\* one object, right after construction
InitExp ==
  /\ Init
  /\ Len(ctor) = 1

\* exp.setsearchstring(s)
SetSearchStringCall(i, s) ==
  /\ rules' = [rules EXCEPT ![i] = setsearchstring(rules[i], s)]
  /\ call' = [NoCall EXCEPT !.op = "setsearchstring", !.exp = i, !.string = s, !.cached = rules[i].cachematch # None]
  /\ sess' = [sess EXCEPT ![i] = [prepared |-> TRUE, mono |-> TRUE, maxstart |-> -1]]
  /\ UNCHANGED <<ctor, tokvars, th>>

\* exp.search(start), start within the bound string
SearchCall(i, start) ==
  /\ start \in 0..Len(rules[i].cachestr)
  /\ LET r == call_search(rules[i], start) IN
       /\ rules' = [rules EXCEPT ![i] = r.self]
       /\ call' = [NoCall EXCEPT !.op = "search", !.exp = i, !.start = start, !.ret = r.match, !.raised = r.raised, !.exc = r.exc, !.invoked = r.invoked, !.cached = rules[i].cachematch # None]
  /\ sess' = [sess EXCEPT ![i].mono = @ /\ start >= sess[i].maxstart, ![i].maxstart = IF start > @ THEN start ELSE @]
  /\ UNCHANGED <<ctor, tokvars, th>>

\* exp.clearcache()
ClearCacheCall(i) ==
  /\ rules' = [rules EXCEPT ![i] = clearcache(rules[i])]
  /\ call' = [NoCall EXCEPT !.op = "clearcache", !.exp = i, !.cached = rules[i].cachematch # None]
  /\ sess' = [sess EXCEPT ![i] = NoSess]
  /\ UNCHANGED <<ctor, tokvars, th>>

NextExp ==
  \/ \E i \in 1..Len(rules), s \in Subjects : SetSearchStringCall(i, s)
  \/ \E i \in 1..Len(rules), start \in 0..MaxLen : SearchCall(i, start)
  \/ \E i \in 1..Len(rules) : ClearCacheCall(i)

SpecExp == InitExp /\ [][NextExp]_vars

\* ------------------------------------------------------------------------
\* Properties
\* ------------------------------------------------------------------------

\* the latest step of tokenize was a completed pass through the loop body
Stepped == last.kind \in {"match", "fallback"}

\* what the regex engine itself finds for the pattern of expression i when
\* asked at offset pos of the subject: its match starting exactly at pos
MatchHere(i, pos) ==
  LET m == regex_search(compile(rules[i]), strinput, pos)
  IN IF m # None /\ m.start = pos THEN m ELSE None

\* the expressions that have a match starting exactly at pos
Here(pos) == {i \in 1..Len(rules) : MatchHere(i, pos) # None}

\* the expressions that have a non-empty match starting exactly at pos
NonEmptyHere(pos) == {i \in Here(pos) : MatchHere(i, pos).end > pos}

\* the expression of C with the longest match at pos, the earliest on a tie
Winner(C, pos) ==
  CHOOSE i \in C : \A j \in C :
    \/ MatchHere(j, pos).end < MatchHere(i, pos).end
    \/ (MatchHere(j, pos).end = MatchHere(i, pos).end /\ i <= j)

RECURSIVE ConcatTexts(_)
\* the texts of a sequence of spans or tokens, concatenated
ConcatTexts(sq) == IF sq = <<>> THEN <<>> ELSE Head(sq).text \o ConcatTexts(Tail(sq))

\* the tokens a sequence of consumed spans stands for
SpanTokens(sp) == [k \in 1..Len(sp) |-> [text |-> sp[k].text, strpos |-> sp[k].start, expression |-> sp[k].exp]]

\* text, offset and expression of the tokens of a sequence
TokenSpans(tk) == [k \in 1..Len(tk) |-> [text |-> tk[k].text, strpos |-> tk[k].strpos, expression |-> tk[k].expression]]

IsEmittedSpan(x) == x.emitted

\* C1 -- Tiling: the spans consumed by tokenize (the emitted tokens together
\* with the spans won by insignificant expressions) start at offset 0, each
\* begins where the previous one ended, the last ends at len(subject) when
\* tokenize returns, and their texts concatenated are the subject; the
\* spans left out of the result are exactly those of insignificant
\* expressions.
C1_Tiling ==
  pc \in {"loop", "done"} =>
    /\ (spans # <<>> => spans[1].start = 0)
    /\ \A k \in 1..Len(spans) - 1 : spans[k + 1].start = spans[k].end
    /\ \A k \in 1..Len(spans) : spans[k].end - spans[k].start = Len(spans[k].text)
    /\ \A k \in 1..Len(spans) : spans[k].emitted <=> (spans[k].exp = 0 \/ ctor[spans[k].exp].significant)
    /\ TokenSpans(tokens) = SpanTokens(SelectSeq(spans, IsEmittedSpan))
    /\ ConcatTexts(spans) = Slice(strinput, 0, strpos)
    /\ (pc = "done" => /\ strpos = Len(strinput)
                       /\ ConcatTexts(spans) = strinput
                       /\ (spans # <<>> => spans[Len(spans)].end = Len(strinput)))

\* a call has returned after consuming emitted and dropped spans
C1_Witness ==
  /\ pc = "done"
  /\ Len(spans) >= 3
  /\ \E k \in 1..Len(spans) : ~spans[k].emitted
  /\ \E k \in 1..Len(spans) : spans[k].emitted

\* C2 as stated -- Longest match: at every scan position where one or more
\* expressions have a match starting exactly there, tokenize selects the
\* expression with the longest match, the earliest in the list on a tie.
C2_LongestMatch_Original ==
  (Stepped /\ Here(last.pos) # {}) =>
    /\ last.kind = "match"
    /\ last.bestexp = Winner(Here(last.pos), last.pos)

\* C2 amended -- Longest match: at every scan position where one or more
\* expressions have a non-empty match starting exactly there, tokenize
\* selects the expression with the longest match, the earliest in the list
\* on a tie, and consumes exactly that match.
C2_LongestMatch ==
  (Stepped /\ NonEmptyHere(last.pos) # {}) =>
    /\ last.kind = "match"
    /\ last.bestexp = Winner(Here(last.pos), last.pos)
    /\ last.bestlen = MatchHere(last.bestexp, last.pos).end - last.pos
    /\ strpos = last.pos + last.bestlen
    /\ spans[Len(spans)].text = group(MatchHere(last.bestexp, last.pos))

\* two expressions tie for the longest match and the earlier one is selected
C2_Witness ==
  /\ Stepped
  /\ last.kind = "match"
  /\ \E i, j \in Here(last.pos) : /\ i < j
                                   /\ last.bestexp = i
                                   /\ MatchHere(i, last.pos).end = MatchHere(j, last.pos).end
                                   /\ last.bestlen = MatchHere(i, last.pos).end - last.pos

\* C3 -- Fallback: a pass through the loop body at a position where no
\* expression has a match starting exactly there appends exactly one token,
\* whose text is the character at the position and whose expression and
\* match are None, and advances the position by exactly 1, whatever the
\* significance flags are.
C3_Fallback ==
  [][(pc = "loop" /\ pc' = "loop" /\ strpos < Len(strinput) /\ Here(strpos) = {}) =>
       /\ tokens' = Append(tokens, [text |-> <<strinput[strpos + 1]>>, expression |-> 0, match |-> None, strpos |-> strpos, linepos |-> strline, source |-> source])
       /\ strpos' = strpos + 1
       /\ last'.kind = "fallback"]_vars

\* a fallback token was appended while every expression is insignificant
C3_Witness ==
  /\ last.kind = "fallback"
  /\ Here(last.pos) = {}
  /\ \A i \in 1..Len(ctor) : ~ctor[i].significant
  /\ tokens # <<>>
  /\ tokens[Len(tokens)].expression = 0
  /\ last.pos > 0

\* ------------------------------------------------------------------------

\* the constructor arguments with expression i made significant
MadeSignificant(i) == [ctor EXCEPT ![i].significant = TRUE]

\* a sequence of tokens without the tokens of expression i
WithoutTokensOf(tk, i) == LET Keep(t) == t.expression # i IN SelectSeq(tk, Keep)

\* C4 -- Significance filtering: a span won by an insignificant expression
\* is not in the returned list, yet it advances position and line as a
\* significant one: the tokens returned with expression R insignificant are
\* the tokens (text, offset, line, expression, match) returned for the same
\* subject with R significant, with the tokens of R deleted.
C4_SignificanceFiltering ==
  pc = "done" =>
    /\ \A k \in 1..Len(tokens) : tokens[k].expression = 0 \/ ctor[tokens[k].expression].significant
    /\ \A i \in 1..Len(ctor) :
         ~ctor[i].significant =>
           LET other == tokenize(strinput, Construct(MadeSignificant(i)))
           IN /\ ~other.raised
              /\ tokens = WithoutTokensOf(other.tokens, i)

\* an insignificant expression won a span holding a newline, and a token
\* was emitted after that span
C4_Witness ==
  /\ pc = "done"
  /\ \E k \in 1..Len(spans) - 1 : /\ spans[k].exp # 0
                                   /\ ~ctor[spans[k].exp].significant
                                   /\ ~spans[k].emitted
                                   /\ count(spans[k].text, newline) > 0
                                   /\ spans[k + 1].emitted
  /\ tokens # <<>>
  /\ tokens[Len(tokens)].linepos > 1

\* C5 -- Order: in the token list of tokenize, start offsets are strictly
\* increasing and line numbers are non-decreasing.
C5_Order ==
  \A k \in 1..Len(tokens) - 1 :
    /\ tokens[k].strpos < tokens[k + 1].strpos
    /\ tokens[k].linepos <= tokens[k + 1].linepos

\* a returned list of three tokens on more than one line
C5_Witness ==
  /\ pc = "done"
  /\ Len(tokens) >= 3
  /\ tokens[1].linepos < tokens[Len(tokens)].linepos

\* C6 -- Determinism under reuse: whatever the objects were used for before,
\* a call of tokenize ends as the call with the same subject on freshly
\* constructed objects does: it returns the same tokens, or raises as well.
C6_Determinism ==
  /\ pc = "done" => LET fresh == tokenize(strinput, Construct(ctor))
                    IN /\ ~fresh.raised
                       /\ tokens = fresh.tokens
  /\ pc = "error" => tokenize(strinput, Construct(ctor)).raised

\* a call has returned tokens on objects that an earlier call had bound to
\* a different subject
C6_Witness ==
  /\ pc = "done"
  /\ reused
  /\ Len(tokens) >= 2
  /\ \E k \in 1..Len(tokens) : tokens[k].expression # 0

\* each token's text is the subject from its offset to the next token's
\* offset, or to the end of the subject for the last token
TextUpToNext(tk) ==
  \A k \in 1..Len(tk) :
    tk[k].text = Slice(strinput, tk[k].strpos, IF k < Len(tk) THEN tk[k + 1].strpos ELSE Len(strinput))

\* the spans of the tokens tile the subject
Tiles(tk) ==
  /\ (tk = <<>> => strinput = EmptyStr)
  /\ (tk # <<>> => tk[1].strpos = 0)
  /\ TextUpToNext(tk)

\* C7 as stated -- the returned tokens tile the subject with no gaps and no
\* overlaps, each token's text being the subject from its offset to the
\* offset of the next returned token.
C7_ReturnedTiling_Original == pc = "done" => Tiles(tokens)

\* C7 amended -- the returned tokens do not overlap and each token's text is
\* the subject substring of its own length at its offset; the gaps between
\* them are exactly the spans won by insignificant expressions, so the
\* tokens tile the subject when no span was won by an insignificant one.
C7_ReturnedTiling ==
  pc = "done" =>
    /\ \A k \in 1..Len(tokens) : tokens[k].text = Slice(strinput, tokens[k].strpos, tokens[k].strpos + Len(tokens[k].text))
    /\ \A k \in 1..Len(tokens) : tokens[k].strpos + Len(tokens[k].text) <= (IF k < Len(tokens) THEN tokens[k + 1].strpos ELSE Len(strinput))
    /\ \A p \in 0..Len(strinput) - 1 :
         (\E k \in 1..Len(tokens) : tokens[k].strpos <= p /\ p < tokens[k].strpos + Len(tokens[k].text))
           <=> ~(\E k \in 1..Len(spans) : spans[k].start <= p /\ p < spans[k].end /\ spans[k].exp # 0 /\ ~ctor[spans[k].exp].significant)
    /\ ((\A k \in 1..Len(spans) : spans[k].exp = 0 \/ ctor[spans[k].exp].significant) => Tiles(tokens))

\* a returned list of at least two tokens, rule-matched and fallback, with
\* no span dropped
C7_Witness ==
  /\ pc = "done"
  /\ Len(tokens) >= 2
  /\ Len(tokens) = Len(spans)
  /\ \E k \in 1..Len(tokens) : tokens[k].expression # 0 /\ Len(tokens[k].text) >= 2
  /\ \E k \in 1..Len(tokens) : tokens[k].expression = 0

\* C10 -- Zero-length suppression: an expression whose match at the scan
\* position has length 0 is never selected; when every expression matching
\* at the position matches with length 0, the pass takes the unmatched
\* branch: one single-character token of no expression, position advanced
\* by 1.
C10_ZeroLengthSuppression ==
  Stepped =>
    /\ (last.kind = "match" => /\ last.bestlen > 0
                               /\ strpos > last.pos
                               /\ MatchHere(last.bestexp, last.pos).end > last.pos)
    /\ ((Here(last.pos) # {} /\ NonEmptyHere(last.pos) = {}) =>
          /\ last.kind = "fallback"
          /\ last.bestexp = 0
          /\ strpos = last.pos + 1
          /\ tokens # <<>>
          /\ tokens[Len(tokens)].text = <<strinput[last.pos + 1]>>
          /\ tokens[Len(tokens)].expression = 0
          /\ tokens[Len(tokens)].match = None
          /\ tokens[Len(tokens)].strpos = last.pos
          /\ spans[Len(spans)] = [start |-> last.pos, end |-> last.pos + 1, exp |-> 0, text |-> <<strinput[last.pos + 1]>>, emitted |-> TRUE])

\* the unmatched branch was taken at a position where an expression has a
\* zero-length match
C10_Witness ==
  /\ last.kind = "fallback"
  /\ Here(last.pos) # {}
  /\ NonEmptyHere(last.pos) = {}
  /\ tokens[Len(tokens)].expression = 0

\* ------------------------------------------------------------------------

\* the latest direct call was a search on an object that has been bound to
\* a subject by setsearchstring, with only searches since
SearchedBound == call.op = "search" /\ sess[call.exp].prepared

\* what the regex engine itself finds for the pattern of the object of the
\* latest call, from the offset of that call on, in the bound string
FirstMatch == regex_search(compile(rules[call.exp]), rules[call.exp].cachestr, call.start)

\* C8 as stated -- search contract: after setsearchstring(subject), for
\* searches at any offsets of the subject in any order, search(start)
\* returns the first match of the pattern starting at or after start in the
\* bound subject, or None when there is none (stated for an eagerly
\* compiled expression).
C8_SearchContract_Original ==
  (SearchedBound /\ ctor[call.exp].precompile) =>
    /\ ~call.raised
    /\ call.ret = FirstMatch

\* C8 amended -- search contract: the same, for searches whose offsets since
\* setsearchstring are non-decreasing.
C8_SearchContract ==
  (SearchedBound /\ ctor[call.exp].precompile /\ sess[call.exp].mono) =>
    /\ ~call.raised
    /\ call.ret = FirstMatch

\* a search past offset 0, after earlier searches at non-decreasing offsets,
\* returned a match that starts beyond the offset asked for
C8_Witness ==
  /\ SearchedBound
  /\ ctor[call.exp].precompile
  /\ sess[call.exp].mono
  /\ call.start > 0
  /\ call.ret # None
  /\ call.ret.start > call.start
  /\ call.ret = FirstMatch

\* C9 -- Lazy compilation: an expression constructed with precompile = False
\* compiles its pattern on the first search and stores the compiled form,
\* and its searches return what those of an eagerly compiled expression
\* with the same pattern return.
C9_LazyCompilation ==
  (call.op = "search" /\ ~ctor[call.exp].precompile) =>
    /\ ~call.raised
    /\ rules[call.exp].regex = compile(rules[call.exp])
    /\ (sess[call.exp].mono => call.ret = FirstMatch)

\* ------------------------------------------------------------------------

\* every expression of the list was constructed with precompile = True
AllEager == \A i \in 1..Len(ctor) : ctor[i].precompile

\* C11 -- Termination: with eagerly compiled expressions a call of tokenize
\* raises nothing; every pass through the loop body increases the position
\* by at least 1, the position never exceeds len(subject), so the call
\* makes at most len(subject) passes, after which it returns; the loop is
\* left with the position equal to len(subject).
C11_Termination ==
  /\ [](AllEager => pc # "error")
  /\ [](strpos <= Len(strinput))
  /\ [](Len(spans) <= strpos)
  /\ [](pc = "done" => strpos = Len(strinput))
  /\ [][(pc = "loop" /\ pc' = "loop") => (strpos' >= strpos + 1 /\ Len(spans') = Len(spans) + 1)]_vars
  /\ [][(pc = "loop" /\ AllEager) => pc' \in {"loop", "done"}]_vars

\* a call on a subject of three characters has returned after passes that
\* took a match of two characters and one character
C11_Witness ==
  /\ pc = "done"
  /\ AllEager
  /\ Len(strinput) >= 3
  /\ strpos = Len(strinput)
  /\ \E k \in 1..Len(spans) : spans[k].end - spans[k].start >= 2
  /\ \E k \in 1..Len(spans) : spans[k].exp = 0

\* ------------------------------------------------------------------------
\* C12, C13: tokenize calls of two threads on shared objects
\* ------------------------------------------------------------------------

\* the tokens the call of thread t returns when it runs alone
Solo(t) == tokenize(th[t].strinput, Construct(ctor)).tokens

\* thread t has returned tokens other than those of the call run alone
Diverged(t) == th[t].pc = "done" /\ th[t].tokens # Solo(t)

\* C12: a tokenize call on shared objects returns tokens other than those of
\* the call run alone only when its setsearchstring/search steps interleaved
\* with those of another call; such an interleaving exists (C12_Witness)
C12_ConcurrentMisuse ==
  \A t \in Threads : Diverged(t) => th[t].overlapped

\* two interleaved calls on different subjects, one of which obtained a match
\* computed against the other's subject and returned tokens it does not
\* return when run alone
C12_Witness ==
  \E t \in Threads, u \in Threads :
    /\ t # u
    /\ Diverged(t)
    /\ th[t].overlapped
    /\ th[t].sawstale
    /\ th[u].pc = "done"
    /\ th[u].strinput # th[t].strinput

\* C13 as stated: no call, concurrent or repeated, obtains from search a
\* match computed against another subject
C13_NoStaleMatches_Original ==
  \A t \in Threads : ~th[t].sawstale

\* C13: a call whose steps did not interleave with another call obtains from
\* search only matches computed against its own subject
C13_NoStaleMatches ==
  \A t \in Threads : th[t].sawstale => th[t].overlapped

\* two calls one after the other on different subjects, each of which won a
\* match of the shared expression
C13_Witness ==
  /\ \A t \in Threads :
       /\ th[t].pc = "done"
       /\ ~th[t].overlapped
       /\ ~th[t].sawstale
       /\ \E k \in 1..Len(th[t].tokens) : th[t].tokens[k].expression # 0
  /\ th[1].strinput # th[2].strinput

\* ------------------------------------------------------------------------
\* C14: malformed pattern text
\* ------------------------------------------------------------------------

\* the rules with malformed pattern text compiled eagerly / lazily
EagerBad == {i \in 1..Len(ctor) : ctor[i].expression = Malformed /\ ctor[i].precompile}

LazyBad == {i \in 1..Len(ctor) : ctor[i].expression = Malformed /\ ~ctor[i].precompile}

\* the first lazily compiled rule of the list is a malformed one: every
\* search before its first search returns
FirstLazyIsBad ==
  \E i \in LazyBad : \A j \in 1..(i - 1) : ctor[j].precompile

\* C14: an eagerly compiled malformed pattern raises the pattern-syntax error
\* at construction and no object exists; a lazily compiled one is constructed,
\* and every tokenize call on a non-empty subject raises in its first pass
\* and returns no tokens: the pattern-syntax error when the searches before
\* the malformed rule's return. The raising search leaves the object as it
\* was, so every later call raises again.
C14_PatternErrorsFailFast ==
  /\ [](pc # "new" => (pc = "ctor_error" <=> EagerBad # {}))
  /\ [](pc = "ctor_error" => (rules = <<>> /\ last.exc = "regex.error" /\ tokens = <<>>))
  /\ []((pc = "done" /\ LazyBad # {}) => strinput = <<>>)
  /\ [](pc = "error" => (tokens = <<>> /\ last.pos = 0))
  /\ [][(pc = "loop" /\ strpos < Len(strinput) /\ LazyBad # {})
          => (pc' = "error" /\ strpos = 0 /\ tokens' = <<>> /\ \A i \in LazyBad : rules'[i] = rules[i])]_vars
  /\ [][(pc = "loop" /\ strpos < Len(strinput) /\ FirstLazyIsBad)
          => (pc' = "error" /\ last'.exc = "regex.error")]_vars

\* a second tokenize call on a list with an eager a+ and a lazy malformed
\* rule has raised the pattern-syntax error again
C14_Witness ==
  /\ pc = "error"
  /\ last.exc = "regex.error"
  /\ reused
  /\ Len(ctor) >= 2
  /\ ctor[1].precompile
  /\ LazyBad # {}
  /\ Len(strinput) >= 2

\* ------------------------------------------------------------------------
\* C15: the cache is transparent within one tokenize call
\* ------------------------------------------------------------------------

\* the call tokenize(strinput, ...) on non-caching objects of the same patterns
Uncached == tokenize(strinput, ConstructNoCache(ctor))

\* C15: in a pass of tokenize that completes, the match search returned for
\* each rule (the value the cache holds after the call) is the match an
\* uncached search returns at that position; and tokenize returns, or raises,
\* exactly as it does on non-caching objects of the same patterns
C15_CacheTransparency ==
  /\ Stepped =>
       \A i \in 1..Len(rules) :
         rules[i].cachematch = search_nocache(rules[i], last.pos).match
  /\ pc = "done" => (~Uncached.raised /\ tokens = Uncached.tokens)
  /\ pc = "error" => (Uncached.raised /\ last.exc = Uncached.exc)

\* a pass has completed in which a rule's search reused, without regex.search,
\* a cached match that lies ahead of the position
C15_Witness ==
  /\ Stepped
  /\ Len(tokens) >= 2
  /\ \E i \in 1..Len(rules) :
       /\ i \notin last.invoked
       /\ rules[i].cachematch # None
       /\ rules[i].cachematch.start > last.pos

\* ------------------------------------------------------------------------
\* C16: cache hit and cache miss of search
\* ------------------------------------------------------------------------

\* the object a search call that has just returned was made on, before the call
Searched == rules[call'.exp]

\* the cached match of that object starts at or after the position asked for
CacheHit == Searched.cachematch # None /\ Searched.cachematch.start >= call'.start

\* C16: a search call that returns gives back the cached match, without
\* regex.search and with the object unchanged, whenever the cached match
\* starts at or after the position; otherwise it runs regex.search once from
\* the position on the bound string and the result, match or None, becomes
\* the cache entry, nothing else of the object changing
C16_HitMissRule ==
  [][(call'.op = "search" /\ ~call'.raised) =>
       IF CacheHit
       THEN /\ call'.ret = Searched.cachematch
            /\ call'.invoked = 0
            /\ rules' = rules
       ELSE /\ call'.invoked = 1
            /\ call'.ret = regex_search(Searched.regex, Searched.cachestr, call'.start)
            /\ rules'[call'.exp] =
                 [Searched EXCEPT !.cachematch = call'.ret,
                                  !.cachepos = IF call'.ret # None THEN call'.ret.start ELSE -1]]_vars

\* a search answered from the cache with a match that starts after the
\* position asked for, on an object whose cache was filled by a miss before
C16_Witness ==
  /\ call.op = "search"
  /\ ~call.raised
  /\ call.invoked = 0
  /\ call.ret # None
  /\ call.ret.start > call.start
  /\ call.ret = rules[call.exp].cachematch
  /\ Len(rules[call.exp].cachestr) = MaxLen

\* ------------------------------------------------------------------------
\* C17: setsearchstring resets the cache and nothing else
\* ------------------------------------------------------------------------

\* C17: setsearchstring(string) leaves the object with no cached match,
\* cached position -1 and the new string bound, whatever it held before, and
\* with its class, pattern, compiled form, settings, significance and name
\* as they were; the search that follows it, when it returns, has run
\* regex.search on the new string
C17_PrepareResetsOnlyCache ==
  /\ [][call'.op = "setsearchstring" =>
          rules' = [rules EXCEPT ![call'.exp] =
                      [@ EXCEPT !.cachematch = None, !.cachepos = -1, !.cachestr = call'.string]]]_vars
  /\ [][(call.op = "setsearchstring" /\ call'.op = "search" /\ call'.exp = call.exp /\ ~call'.raised) =>
          /\ call'.invoked = 1
          /\ call'.ret = regex_search(rules[call.exp].regex, call.string, call'.start)]_vars

\* setsearchstring has just rebound an object that held a cached match for
\* another string
C17_Witness ==
  /\ call.op = "setsearchstring"
  /\ call.cached
  /\ call.string # EmptyStr
  /\ rules[call.exp].cachematch = None
  /\ rules[call.exp].cachepos = -1
  /\ rules[call.exp].cachestr = call.string

\* ------------------------------------------------------------------------
\* C18: line numbers
\* ------------------------------------------------------------------------

\* 1 + the number of newline characters of the subject before offset p
LineOf(p) == 1 + count(Slice(strinput, 0, p), newline)

\* C18: every token built so far, of a rule or of no rule, carries as its
\* line 1 plus the number of newline characters of the subject before its
\* start offset, the newlines of spans won by insignificant rules included;
\* the line counter itself is the line of the scan position
C18_LineNumbers ==
  /\ \A k \in 1..Len(tokens) : tokens[k].linepos = LineOf(tokens[k].strpos)
  /\ pc \in {"loop", "done"} => strline = LineOf(strpos)

\* a call has returned a token on a later line that follows a span with a
\* newline won by an insignificant rule
C18_Witness ==
  /\ pc = "done"
  /\ \E j \in 1..Len(spans), k \in 1..Len(tokens) :
       /\ ~spans[j].emitted
       /\ count(spans[j].text, newline) > 0
       /\ tokens[k].strpos >= spans[j].end
       /\ tokens[k].linepos >= 2

\* ------------------------------------------------------------------------
\* C19: "no match" is not reused
\* ------------------------------------------------------------------------

\* C19: an object without a cached match has cached position -1; inside one
\* tokenize call, a rule that holds no cached match (none searched yet, or
\* its last search found none) has regex.search run again in every later
\* pass that completes, and finds none again
C19_NoNegativeCaching ==
  /\ [](\A i \in 1..Len(rules) : rules[i].cachematch = None => rules[i].cachepos = -1)
  /\ [][(pc = "loop" /\ pc' = "loop") =>
          \A i \in 1..Len(rules) :
            rules[i].cachematch = None =>
              /\ i \in last'.invoked
              /\ (Stepped => rules'[i].cachematch = None)]_vars

\* the third pass of a call has completed, and a rule that found no match in
\* the first pass had regex.search run in it again
C19_Witness ==
  /\ Stepped
  /\ Len(spans) >= 3
  /\ \E i \in 1..Len(rules) :
       /\ i \in last.invoked
       /\ rules[i].cachematch = None
       /\ rules[i].regex # None
       /\ regex_search(rules[i].regex, strinput, 0) = None

\* ------------------------------------------------------------------------
\* C20: the cache fields agree
\* ------------------------------------------------------------------------

\* the cache fields of an object agree: no cached match and position -1, or
\* a cached match of the object's pattern in the bound string, the position
\* being its start offset
CacheConsistent(self) ==
  IF self.cachematch = None
  THEN self.cachepos = -1
  ELSE /\ self.cachepos = self.cachematch.start
       /\ self.cachepos \in 0..Len(self.cachestr)
       /\ self.cachematch.string = self.cachestr
       /\ self.cachematch = match_at(compile(self), self.cachestr, self.cachepos)

\* C20: after construction and after every sequence of setsearchstring,
\* search and clearcache calls, the cached position is -1 exactly when no
\* match is cached, and otherwise is the start offset of the cached match,
\* which is a match of the pattern in the string currently bound
C20_CacheConsistency ==
  \A i \in 1..Len(rules) : CacheConsistent(rules[i])

\* a search on an object that already held a cached match has run
\* regex.search and cached a match that starts past offset 0
C20_Witness ==
  /\ call.op = "search"
  /\ call.cached
  /\ call.invoked = 1
  /\ rules[call.exp].cachematch # None
  /\ rules[call.exp].cachepos > 0
  /\ rules[call.exp].cachepos = rules[call.exp].cachematch.start

====
